---------------------------- MODULE Spec2Model ----------------------------
(* A model of main.py: the Dockerfile generator service.                  *)
(*                                                                        *)
(*   DockerfileRequest    the pydantic request schema (main.py 20-27)     *)
(*   create_prompt        the prompt builder (main.py 33-63)              *)
(*   generate_dockerfile  the POST /generate handler (main.py 66-96)      *)
(*   read_root            the GET / handler (main.py 98-100)              *)
(*                                                                        *)
(* A text is a sequence of tokens.  A token is a TLA+ string: one         *)
(* character of a value a client or the provider chose, or one literal    *)
(* fragment of an f-string of the source, kept whole.  The grave accent   *)
(* of the source is written ^ here: SANY's strings cannot hold it.        *)
EXTENDS Integers, Sequences, FiniteSets, TLC

VARIABLES
    req,    \* req[r]: everything the server holds for request r
    loop    \* the request whose coroutine occupies the event loop, or Idle

vars == <<req, loop>>

--------------------------------------------------------------------------
(* Bounds of the model.                                                   *)

\* Longest dependency_file / start_command drawn for the prompt builder.
MaxLen == 2

\* Number of requests a behaviour of the server holds.
NReq == 2

Requests == 1..NReq

Idle == 0

--------------------------------------------------------------------------
(* Texts.                                                                 *)

\* Characters of the dependency_file, start_command, build_command and
\* base_image drawn for the prompt builder.  "8" is also a
\* digit of the ports drawn, so that one value can occur inside another.
Vocab == {"a", "8"}

RECURSIVE Texts(_)
Texts(n) ==
    IF n = 0 THEN {<<>>}
    ELSE LET shorter == Texts(n - 1)
         IN  shorter \cup {Append(t, c) : t \in shorter, c \in Vocab}

NonEmptyTexts(n) == Texts(n) \ {<<>>}

\* s[i .. i+Len(v)-1] = v
OccursAt(v, s, i) ==
    /\ i >= 1
    /\ i + Len(v) - 1 <= Len(s)
    /\ \A k \in 1..Len(v) : s[i + k - 1] = v[k]

\* Python's (v in s) for texts.
Contains(s, v) == \E i \in 1..(Len(s) + 1) : OccursAt(v, s, i)

\* Number of places of s where v begins.
CountOcc(s, v) == Cardinality({i \in 1..(Len(s) + 1) : OccursAt(v, s, i)})

IsPrefix(p, s) == Len(p) <= Len(s) /\ SubSeq(s, 1, Len(p)) = p

IsSuffix(p, s) ==
    Len(p) <= Len(s) /\ SubSeq(s, Len(s) - Len(p) + 1, Len(s)) = p

DigitChars == <<"0", "1", "2", "3", "4", "5", "6", "7", "8", "9">>

IsDigit(c) == \E d \in 1..10 : DigitChars[d] = c

DigitValue(c) == (CHOOSE d \in 1..10 : DigitChars[d] = c) - 1

\* str(n) of a non-negative int: its decimal digits.
RECURSIVE NatToStr(_)
NatToStr(n) ==
    IF n < 10 THEN <<DigitChars[n + 1]>>
    ELSE Append(NatToStr(n \div 10), DigitChars[(n % 10) + 1])

\* What the f-string replacement field {request.port} renders: str(int).
IntToStr(n) == IF n < 0 THEN <<"-">> \o NatToStr(-n) ELSE NatToStr(n)

\* The value of a text of decimal digits.
RECURSIVE DigitsToNat(_)
DigitsToNat(s) ==
    IF Len(s) = 0 THEN 0
    ELSE 10 * DigitsToNat(SubSeq(s, 1, Len(s) - 1)) + DigitValue(s[Len(s)])

IsDigits(s) == Len(s) > 0 /\ \A i \in 1..Len(s) : IsDigit(s[i])

\* A text pydantic's int field parses: digits, with an optional sign.
IsIntLiteral(s) ==
    \/ IsDigits(s)
    \/ Len(s) > 1 /\ s[1] \in {"-", "+"} /\ IsDigits(Tail(s))

StrToInt(s) ==
    IF s[1] = "-" THEN 0 - DigitsToNat(Tail(s))
    ELSE IF s[1] = "+" THEN DigitsToNat(Tail(s))
    ELSE DigitsToNat(s)

--------------------------------------------------------------------------
(* JSON values of a request body, and the optional values of Python.      *)

JAbsent == [kind |-> "absent", s |-> <<>>, n |-> 0]
JNull == [kind |-> "null", s |-> <<>>, n |-> 0]
JStr(t) == [kind |-> "str", s |-> t, n |-> 0]
JInt(i) == [kind |-> "int", s |-> <<>>, n |-> i]

\* Optional[str]: None, or a str.
None == [some |-> FALSE, val |-> <<>>]
Some(t) == [some |-> TRUE, val |-> t]

\* Python's truth value of an Optional[str]: None and "" are false.
Truthy(o) == o.some /\ Len(o.val) > 0

--------------------------------------------------------------------------
(* DockerfileRequest: the schema, validated by pydantic before the        *)
(* handler is called.                                                     *)

FieldOrder ==
    <<"language", "package_manager", "dependency_file", "port",
      "start_command", "build_command", "base_image">>

\* name: str -- only a JSON string is a valid string.
StrFieldError(v) ==
    IF v.kind = "absent" THEN "missing"
    ELSE IF v.kind = "str" THEN "ok"
    ELSE "string_type"

\* port: int -- an int, or a string that parses as one.
IntFieldError(v) ==
    IF v.kind = "absent" THEN "missing"
    ELSE IF v.kind = "int" THEN "ok"
    ELSE IF v.kind = "str"
         THEN (IF IsIntLiteral(v.s) THEN "ok" ELSE "int_parsing")
    ELSE "int_type"

\* name: Optional[str] = None -- absent and null are None.
OptStrFieldError(v) ==
    IF v.kind \in {"absent", "null", "str"} THEN "ok" ELSE "string_type"

FieldError(p, f) ==
    IF f = "port" THEN IntFieldError(p[f])
    ELSE IF f \in {"build_command", "base_image"} THEN OptStrFieldError(p[f])
    ELSE StrFieldError(p[f])

\* ValidationErrors with every field given a default: a missing field is
\* no error.
ValidationErrorsAllOptional(p) ==
    LET bad == SelectSeq(FieldOrder,
                         LAMBDA f : FieldError(p, f) \notin {"ok", "missing"})
    IN  [i \in 1..Len(bad) |-> [loc |-> bad[i], type |-> FieldError(p, bad[i])]]

\* The errors of pydantic's ValidationError, in the order of the fields.
ValidationErrors(p) ==
    LET bad == SelectSeq(FieldOrder, LAMBDA f : FieldError(p, f) # "ok")
    IN  [i \in 1..Len(bad) |-> [loc |-> bad[i], type |-> FieldError(p, bad[i])]]

IntFieldValue(v) == IF v.kind = "int" THEN v.n ELSE StrToInt(v.s)

OptStrFieldValue(v) == IF v.kind = "str" THEN Some(v.s) ELSE None

\* The model instance pydantic builds from a body without errors.
DockerfileRequest(p) ==
    [language        |-> p.language.s,
     package_manager |-> p.package_manager.s,
     dependency_file |-> p.dependency_file.s,
     port            |-> IntFieldValue(p.port),
     start_command   |-> p.start_command.s,
     build_command   |-> OptStrFieldValue(p.build_command),
     base_image      |-> OptStrFieldValue(p.base_image)]

\* The value a request holds before its body is validated.
NoRequest ==
    [language        |-> <<>>,
     package_manager |-> <<>>,
     dependency_file |-> <<>>,
     port            |-> 0,
     start_command   |-> <<>>,
     build_command   |-> None,
     base_image      |-> None]

--------------------------------------------------------------------------
(* create_prompt: the literal fragments of its f-strings, and the         *)
(* function.                                                              *)

HeaderOpen ==
    "Generate a secure, production-ready, multi-stage Dockerfile for a **"
HeaderUsing == "** application using **"
HeaderClose == "**.\n\n"
DetailsHeading == "**Application Details:**\n"
DependencyLabel == "- The dependency file is named ^"
PortLabel == "- The application runs on and exposes port ^"
StartLabel == "- The command to start the application is ^"
LineClose == "^.\n"
BuildLabel == "- The build command is ^"
BaseImageLabel == "- The user has requested a base image of ^"
BaseImageClose ==
    "^. Use this if it is a valid and secure choice, otherwise select a suitable slim or alpine official image.\n"

InstructionsHeading == "\n**Instructions & Best Practices to Follow:**\n"
MultiStage ==
    "- Use multi-stage builds. The first stage should build dependencies, and the final stage should be a lean image with only the production code and necessary dependencies.\n"
NonRoot ==
    "- Do not run as the ^root^ user. Create a non-root user (e.g., 'appuser') and switch to it.\n"
DockerIgnore ==
    "- Use a ^.dockerignore^ file (provide an example of what it should contain in a comment).\n"
LayerCaching ==
    "- Leverage Docker layer caching by copying dependency files and installing packages before copying the rest of the source code.\n"
Permissions ==
    "- Ensure all permissions are set correctly for the non-root user.\n"
RawOutput ==
    "- The final output should be only the raw Dockerfile content, without any explanations or markdown formatting like ^^^dockerfile."

\* BestPractices with two of its lines exchanged.
BestPracticesReordered ==
    <<InstructionsHeading, MultiStage, DockerIgnore, NonRoot, LayerCaching,
      Permissions, RawOutput>>

\* The string appended last (main.py 54-62).
BestPractices ==
    <<InstructionsHeading, MultiStage, NonRoot, DockerIgnore, LayerCaching,
      Permissions, RawOutput>>

\* CoreInstruction with the lines of the port and of the start command
\* exchanged.
CoreInstructionReordered(request) ==
    <<HeaderOpen>> \o request.language \o <<HeaderUsing>>
        \o request.package_manager \o <<HeaderClose>>
        \o <<DetailsHeading>>
        \o <<DependencyLabel>> \o request.dependency_file \o <<LineClose>>
        \o <<StartLabel>> \o request.start_command \o <<LineClose>>
        \o <<PortLabel>> \o IntToStr(request.port) \o <<LineClose>>

\* The core instruction (main.py 37-44).
CoreInstruction(request) ==
    <<HeaderOpen>> \o request.language \o <<HeaderUsing>>
        \o request.package_manager \o <<HeaderClose>>
        \o <<DetailsHeading>>
        \o <<DependencyLabel>> \o request.dependency_file \o <<LineClose>>
        \o <<PortLabel>> \o IntToStr(request.port) \o <<LineClose>>
        \o <<StartLabel>> \o request.start_command \o <<LineClose>>

BuildLine(request) ==
    <<BuildLabel>> \o request.build_command.val \o <<LineClose>>

BaseImageLine(request) ==
    <<BaseImageLabel>> \o request.base_image.val \o <<BaseImageClose>>

create_prompt(request) ==
    LET prompt0 == CoreInstruction(request)
        prompt1 == IF Truthy(request.build_command)
                   THEN prompt0 \o BuildLine(request) ELSE prompt0
        prompt2 == IF Truthy(request.base_image)
                   THEN prompt1 \o BaseImageLine(request) ELSE prompt1
    IN  prompt2 \o BestPractices

--------------------------------------------------------------------------
(* The server's state for one request.                                    *)

NoBody ==
    [language        |-> JAbsent,
     package_manager |-> JAbsent,
     dependency_file |-> JAbsent,
     port            |-> JAbsent,
     start_command   |-> JAbsent,
     build_command   |-> JAbsent,
     base_image      |-> JAbsent]

NoOutcome == [kind |-> "none", text |-> <<>>]

NoResponseBody == [key |-> "", text |-> <<>>, errors |-> <<>>]

\* A request no client has sent yet.
Fresh ==
    [kind    |-> "none",          \* "generate": POST /generate; "root": GET /
     payload |-> NoBody,          \* the JSON body
     desc    |-> NoRequest,       \* the handler's argument `request`
     prompt  |-> <<>>,            \* the handler's local `prompt`
     sent    |-> <<>>,            \* the argument of generate_content
     outcome |-> NoOutcome,       \* what generate_content did
     status  |-> 0,               \* the response's status code, 0: none yet
     body    |-> NoResponseBody,  \* the response's JSON body
     hist    |-> <<>>]            \* the stages passed, in order

Stage(r) ==
    IF Len(req[r].hist) = 0 THEN "none" ELSE req[r].hist[Len(req[r].hist)]

Responded(r) == req[r].status # 0

--------------------------------------------------------------------------
(* The responses.                                                         *)

GenericDetail == <<"Failed to generate Dockerfile from the AI model.">>

RootMessage == <<"Dockerfile Generator API is running!">>

\* FastAPI's answer to a body that fails validation.
Response422(errors) ==
    [status |-> 422, body |-> [key |-> "detail", text |-> <<>>, errors |-> errors]]

\* raise HTTPException(status_code=500, detail=...) (main.py 96).
Response500 ==
    [status |-> 500,
     body |-> [key |-> "detail", text |-> GenericDetail, errors |-> <<>>]]

\* return {"dockerfile": dockerfile_content} (main.py 91).
Response200(dockerfile_content) ==
    [status |-> 200,
     body |-> [key |-> "dockerfile", text |-> dockerfile_content, errors |-> <<>>]]

\* return {"message": ...} (main.py 100).
ResponseRoot ==
    [status |-> 200,
     body |-> [key |-> "message", text |-> RootMessage, errors |-> <<>>]]

\* HandlerResult with detail=str(e) in the except clause.
HandlerResultLeaky(o) ==
    IF o.kind = "raise"
    THEN [status |-> 500,
          body |-> [key |-> "detail", text |-> o.text, errors |-> <<>>]]
    ELSE IF o.kind = "text" /\ Len(o.text) > 0 THEN Response200(o.text)
    ELSE Response500

\* HandlerResult returning the first piece of the text only.
HandlerResultTruncated(o) ==
    IF o.kind = "text" /\ Len(o.text) > 0
    THEN Response200(SubSeq(o.text, 1, 1))
    ELSE Response500

\* The handler from the return of generate_content on (main.py 82-96):
\* o is what the call did.
HandlerResult(o) ==
    IF o.kind = "raise" THEN Response500
    ELSE LET dockerfile_content ==
                 IF o.kind = "text" THEN Some(o.text) ELSE None
         IN  IF ~Truthy(dockerfile_content) THEN Response500
             ELSE Response200(dockerfile_content.val)

--------------------------------------------------------------------------
(* The inputs: request bodies and what the provider does.                 *)

BaseBody ==
    [language        |-> JStr(<<"p", "y">>),
     package_manager |-> JStr(<<"p", "i", "p">>),
     dependency_file |-> JStr(<<"r", "e", "q">>),
     port            |-> JInt(8000),
     start_command   |-> JStr(<<"p", "y", " ", "a", "p", "p">>),
     build_command   |-> JAbsent,
     base_image      |-> JAbsent]

Bodies ==
    { BaseBody,
      [BaseBody EXCEPT !.build_command = JStr(<<"m", "k">>),
                       !.base_image = JStr(<<"p", "y", ":", "3">>)],
      [BaseBody EXCEPT !.port = JStr(<<"8", "0">>)],
      [BaseBody EXCEPT !.port = JInt(0)],
      [BaseBody EXCEPT !.port = JInt(70000)],
      [BaseBody EXCEPT !.language = JStr(<<>>)],
      [BaseBody EXCEPT !.start_command = JAbsent],
      [BaseBody EXCEPT !.port = JStr(<<"a", "b", "c">>)],
      [BaseBody EXCEPT !.language = JInt(3), !.port = JAbsent] }

\* The texts of the exceptions the provider's client raises.
ExceptionTexts == {<<"503", " ", "Service Unavailable">>}

\* The texts the provider returns.
ModelTexts == {<<>>, <<"FROM python:3.11-slim\n", "EXPOSE 8000\n">>}

\* What model.generate_content(prompt) does: it raises, it returns a
\* response with a text, or it returns one without.
Outcomes ==
    {[kind |-> "raise", text |-> e] : e \in ExceptionTexts}
        \cup {[kind |-> "text", text |-> t] : t \in ModelTexts}
        \cup {[kind |-> "notext", text |-> <<>>]}

--------------------------------------------------------------------------
(* The operations.  Every step of the server runs on the one event loop.  *)
(* generate_dockerfile is a coroutine that never awaits: from its first   *)
(* line to its return, the call model.generate_content(prompt) included,  *)
(* it occupies the loop.  The print calls write to stdout, which the      *)
(* program never reads; they are left out.                                *)

\* The server reads a request from a client.
Receive(r, k, p) ==
    /\ loop = Idle
    /\ req[r].kind = "none"
    /\ req' = [req EXCEPT ![r].kind = k, ![r].payload = p,
                          ![r].hist = <<"received">>]
    /\ UNCHANGED loop

\* FastAPI validates the body against DockerfileRequest: 422, or the
\* handler's argument.
Validate(r) ==
    /\ loop = Idle
    /\ req[r].kind = "generate"
    /\ Stage(r) = "received"
    /\ LET errors == ValidationErrors(req[r].payload)
       IN  IF Len(errors) > 0
           THEN req' = [req EXCEPT
                    ![r].status = Response422(errors).status,
                    ![r].body = Response422(errors).body,
                    ![r].hist = Append(@, "responded_error")]
           ELSE req' = [req EXCEPT
                    ![r].desc = DockerfileRequest(req[r].payload),
                    ![r].hist = Append(@, "validated")]
    /\ UNCHANGED loop

InHist(r, e) == \E i \in 1..Len(req[r].hist) : req[r].hist[i] = e

\* RequestOf reading a module-level variable that holds the first request
\* validated.
RequestOfShared(r) ==
    LET validated == {q \in Requests : InHist(q, "validated")}
    IN  req[CHOOSE q \in validated : \A q2 \in validated : q <= q2].desc

\* The descriptor the handler of request r was called with.
RequestOf(r) == req[r].desc

\* generate_dockerfile, to prompt = create_prompt(request) (main.py 72-77).
BuildPrompt(r) ==
    /\ loop = Idle
    /\ Stage(r) = "validated"
    /\ req' = [req EXCEPT ![r].prompt = create_prompt(RequestOf(r)),
                          ![r].hist = Append(@, "prompt_built")]
    /\ loop' = r

\* model = genai.GenerativeModel(...); model.generate_content(prompt) is
\* called (main.py 81-82).
Invoke(r) ==
    /\ loop = r
    /\ Stage(r) = "prompt_built"
    /\ req' = [req EXCEPT ![r].sent = req[r].prompt,
                          ![r].hist = Append(@, "generation_attempted")]
    /\ UNCHANGED loop

\* Complete calling generate_content once more after a first failure.
CompleteWithRetry(r, o) ==
    /\ loop = r
    /\ Stage(r) = "generation_attempted"
    /\ req[r].outcome = NoOutcome
    /\ LET res == HandlerResult(o)
           again == res.status # 200 /\ Len(req[r].hist) < 5
       IN  /\ req' = [req EXCEPT
                   ![r].outcome = IF again THEN NoOutcome ELSE o,
                   ![r].status = IF again THEN 0 ELSE res.status,
                   ![r].body = IF again THEN NoResponseBody ELSE res.body,
                   ![r].hist = Append(@, IF again THEN "generation_attempted"
                                         ELSE IF res.status = 200
                                         THEN "responded_200"
                                         ELSE "responded_error")]
           /\ loop' = IF again THEN r ELSE Idle

\* generate_content returns or raises, and the handler runs to its end
\* (main.py 82-96).
Complete(r, o) ==
    /\ loop = r
    /\ Stage(r) = "generation_attempted"
    /\ req[r].outcome = NoOutcome
    /\ LET res == HandlerResult(o)
       IN  req' = [req EXCEPT
               ![r].outcome = o,
               ![r].status = res.status,
               ![r].body = res.body,
               ![r].hist = Append(@, IF res.status = 200
                                     THEN "responded_200"
                                     ELSE "responded_error")]
    /\ loop' = Idle

\* read_root (main.py 98-100).
read_root(r) ==
    /\ loop = Idle
    /\ req[r].kind = "root"
    /\ Stage(r) = "received"
    /\ req' = [req EXCEPT ![r].status = ResponseRoot.status,
                          ![r].body = ResponseRoot.body,
                          ![r].hist = Append(@, "responded_200")]
    /\ UNCHANGED loop

--------------------------------------------------------------------------
(* The server.                                                            *)

Init ==
    /\ req = [r \in Requests |-> Fresh]
    /\ loop = Idle

Next ==
    \/ \E r \in Requests, p \in Bodies : Receive(r, "generate", p)
    \/ \E r \in Requests : Receive(r, "root", NoBody)
    \/ \E r \in Requests : Validate(r)
    \/ \E r \in Requests : BuildPrompt(r)
    \/ \E r \in Requests : Invoke(r)
    \/ \E r \in Requests, o \in Outcomes : Complete(r, o)
    \/ \E r \in Requests : read_root(r)

Spec == Init /\ [][Next]_vars

\* A step of the event loop for a request it has received.
ServerStep ==
    \E r \in Requests :
        \/ Validate(r)
        \/ BuildPrompt(r)
        \/ Invoke(r)
        \/ read_root(r)

\* A call of the provider returns or raises.
ProviderAnswers == \E r \in Requests, o \in Outcomes : Complete(r, o)

\* The event loop runs a task that is ready, and every call of the
\* provider returns or raises.
SpecFair == Spec /\ WF_vars(ServerStep) /\ WF_vars(ProviderAnswers)

--------------------------------------------------------------------------
(* The prompt builder alone: one validated request, its body drawn from   *)
(* the bodies that meet the data model, and the call of create_prompt.    *)

PromptPorts == {8, 80, 65535}

Languages == {<<"g", "o">>, <<"p", "y">>}

PackageManagers == {<<"n", "p", "m">>, <<"p", "i", "p">>}

OptionalValues == {JAbsent, JNull} \cup {JStr(t) : t \in Texts(1)}

PromptBodies ==
    [language        : {JStr(t) : t \in Languages},
     package_manager : {JStr(t) : t \in PackageManagers},
     dependency_file : {JStr(t) : t \in NonEmptyTexts(MaxLen)},
     port            : {JInt(n) : n \in PromptPorts},
     start_command   : {JStr(t) : t \in NonEmptyTexts(MaxLen)},
     build_command   : OptionalValues,
     base_image      : OptionalValues]

InitPrompt ==
    /\ loop = Idle
    /\ \E p \in PromptBodies :
           req = [r \in Requests |->
                     IF r = 1
                     THEN [Fresh EXCEPT !.kind = "generate",
                                        !.payload = p,
                                        !.desc = DockerfileRequest(p),
                                        !.hist = <<"received", "validated">>]
                     ELSE Fresh]

NextPrompt == \E r \in Requests : BuildPrompt(r)

SpecPrompt == InitPrompt /\ [][NextPrompt]_vars

--------------------------------------------------------------------------
(* Claims about the server, checked under Spec.                           *)

Generate(r) == req[r].kind = "generate"

\* The model call of r raised, or returned no text or an empty one.
GenerationFailed(r) ==
    \/ req[r].outcome.kind \in {"raise", "notext"}
    \/ req[r].outcome.kind = "text" /\ req[r].outcome.text = <<>>

TokensOf(t) == {t[i] : i \in 1..Len(t)}

\* C1: when the model call of a validated request raises, or returns a
\* response whose text is absent or empty, the response is 500, its body is
\* the fixed generic detail and nothing else, and no part of the provider's
\* exception text is in the body.
C1_FailureIsGeneric500 ==
    \A r \in Requests :
        GenerationFailed(r) =>
            /\ InHist(r, "validated")
            /\ req[r].status = 500
            /\ req[r].body.key = "detail"
            /\ req[r].body.text = GenericDetail
            /\ req[r].body.errors = <<>>
            /\ req[r].outcome.kind = "raise" =>
                   /\ ~Contains(req[r].body.text, req[r].outcome.text)
                   /\ TokensOf(req[r].outcome.text)
                          \cap TokensOf(req[r].body.text) = {}

C1_Witness ==
    \E r \in Requests :
        /\ req[r].outcome.kind = "raise"
        /\ Len(req[r].outcome.text) > 0
        /\ req[r].status = 500

RequiredFields ==
    {"language", "package_manager", "dependency_file", "port", "start_command"}

MissingRequired(p) == \E f \in RequiredFields : p[f].kind = "absent"

\* The port is there and is no integer: null, or a string that is no
\* integer literal.
PortNotInteger(p) ==
    \/ p.port.kind = "null"
    \/ p.port.kind = "str" /\ ~IsIntLiteral(p.port.s)

\* C2: a POST /generate body with a required field missing, or with a port
\* that is no integer, is answered 422 by the validation step itself, the
\* errors name every missing field, and neither create_prompt nor
\* generate_content occurs in the request's history.
C2_InvalidBodyIs422BeforePrompt ==
    \A r \in Requests :
        (Generate(r) /\ (MissingRequired(req[r].payload)
                            \/ PortNotInteger(req[r].payload))) =>
            /\ ~InHist(r, "validated")
            /\ ~InHist(r, "prompt_built")
            /\ ~InHist(r, "generation_attempted")
            /\ req[r].prompt = <<>>
            /\ req[r].sent = <<>>
            /\ req[r].outcome = NoOutcome
            /\ req[r].status \in {0, 422}
            /\ Stage(r) # "received" =>
                   /\ req[r].status = 422
                   /\ req[r].hist = <<"received", "responded_error">>
                   /\ \A f \in RequiredFields :
                          req[r].payload[f].kind = "absent" =>
                              \E i \in 1..Len(req[r].body.errors) :
                                  /\ req[r].body.errors[i].loc = f
                                  /\ req[r].body.errors[i].type = "missing"
                   /\ PortNotInteger(req[r].payload) =>
                          \E i \in 1..Len(req[r].body.errors) :
                              req[r].body.errors[i].loc = "port"

C2_Witness ==
    \E r \in Requests :
        /\ Generate(r)
        /\ req[r].payload.start_command.kind = "absent"
        /\ req[r].status = 422

\* C3: POST /generate answers 200 if and only if the body validated and
\* the model call returned a non-empty text, and then the body is
\* {"dockerfile": t} with t the whole text the call returned for this
\* request.
C3_200IffTextReturned ==
    \A r \in Requests :
        Generate(r) =>
            /\ req[r].status = 200 <=>
                   /\ InHist(r, "validated")
                   /\ req[r].outcome.kind = "text"
                   /\ req[r].outcome.text # <<>>
            /\ req[r].status = 200 =>
                   /\ req[r].body.key = "dockerfile"
                   /\ req[r].body.text = req[r].outcome.text
                   /\ req[r].body.errors = <<>>

C3_Witness ==
    \E r \in Requests :
        /\ Generate(r)
        /\ req[r].status = 200
        /\ Len(req[r].body.text) = 2

\* The constraints of the data model: the required texts are non-empty
\* and the port is in 1..65535.
MeetsDataModel(d) ==
    /\ Len(d.language) > 0
    /\ Len(d.package_manager) > 0
    /\ Len(d.dependency_file) > 0
    /\ Len(d.start_command) > 0
    /\ d.port >= 1
    /\ d.port <= 65535

\* C7: a request passes validation, has a prompt built and has the model
\* called only when its required texts are non-empty and its port is in
\* 1..65535.
C7_OnlyDataModelValidReachPrompt ==
    \A r \in Requests :
        (InHist(r, "validated") \/ InHist(r, "prompt_built")
            \/ InHist(r, "generation_attempted")) =>
            MeetsDataModel(req[r].desc)

\* A step the server takes for request q.
Progress(q) ==
    \/ \E p \in Bodies : Receive(q, "generate", p)
    \/ Receive(q, "root", NoBody)
    \/ Validate(q)
    \/ BuildPrompt(q)
    \/ Invoke(q)
    \/ read_root(q)

\* C9: while the provider call of one request has not returned, the server
\* can take a step for any other request that has no response yet: receive
\* it, validate it, run its handler, answer GET /.
C9_NonBlocking ==
    \A r \in Requests, q \in Requests :
        (r # q /\ Stage(r) = "generation_attempted" /\ ~Responded(q)) =>
            ENABLED Progress(q)

\* C10: the prompt sent for a request is the prompt of its own body; two
\* requests with the same body and the same outcome of their own model
\* calls have the same response; and a step changes the state of one
\* request only.
C10_OwnPrompt ==
    \A r \in Requests :
        InHist(r, "generation_attempted") =>
            /\ req[r].sent = create_prompt(DockerfileRequest(req[r].payload))
            /\ req[r].prompt = req[r].sent

C10_SameInputsSameResponse ==
    \A r \in Requests, q \in Requests :
        (/\ Generate(r) /\ Generate(q) /\ Responded(r) /\ Responded(q)
         /\ req[r].payload = req[q].payload
         /\ req[r].outcome = req[q].outcome) =>
            /\ req[r].status = req[q].status
            /\ req[r].body = req[q].body

C10_OneRequestPerStep ==
    \A r \in Requests :
        req'[r] # req[r] => \A q \in Requests \ {r} : req'[q] = req[q]

C10_Isolation ==
    /\ [](C10_OwnPrompt /\ C10_SameInputsSameResponse)
    /\ [][C10_OneRequestPerStep]_vars

C10_Witness ==
    \E r \in Requests, q \in Requests :
        /\ r # q
        /\ req[r].status = 200
        /\ req[q].status = 500
        /\ req[q].outcome.kind = "raise"
        /\ req[r].payload # req[q].payload
        /\ req[r].sent # req[q].sent

--------------------------------------------------------------------------
(* Claims about the life of a request, checked under SpecFair.            *)

StageOrder ==
    <<"received", "validated", "prompt_built", "generation_attempted">>

Terminal(e) == e \in {"responded_200", "responded_error"}

\* C8 as stated: every POST /generate request that is answered has been
\* through received, validated, prompt-built and generation-attempted.
C8_EveryRequestPassesAllStages ==
    \A r \in Requests :
        (Generate(r) /\ Responded(r)) => IsPrefix(StageOrder, req[r].hist)

\* The stages of r so far are an initial part of StageOrder, followed by at
\* most one terminal stage: responded-200 after all four stages,
\* responded-error after all four (the 500) or right after received (the
\* 422).
C8_StagesInOrder ==
    \A r \in Requests :
        Generate(r) =>
            LET h == req[r].hist
                n == Len(h)
            IN  \/ IsPrefix(h, StageOrder)
                \/ /\ Terminal(h[n])
                   /\ SubSeq(h, 1, n - 1) = StageOrder
                   /\ Responded(r)
                \/ /\ h = <<"received", "responded_error">>
                   /\ req[r].status = 422
                   /\ Len(ValidationErrors(req[r].payload)) > 0

\* A request is answered when and only when its last stage is terminal.
C8_AnsweredIffTerminal ==
    \A r \in Requests :
        Generate(r) =>
            /\ Responded(r) <=> Terminal(Stage(r))
            /\ Stage(r) = "responded_200" <=> req[r].status = 200
            /\ InHist(r, "validated") =>
                   Len(ValidationErrors(req[r].payload)) = 0

\* The response of a request, once given, is never replaced, and no stage
\* follows it.
C8_OneResponse ==
    \A r \in Requests :
        Responded(r) => req'[r] = req[r]

\* C8, amended: a POST /generate request whose body validates moves through
\* received, validated, prompt-built, generation-attempted in that order,
\* skipping and repeating none; one whose body fails validation goes from
\* received to responded-error; the model is invoked at most once; a
\* response is never replaced; and every request received is eventually
\* answered.
C8_Lifecycle ==
    /\ [](C8_StagesInOrder /\ C8_AnsweredIffTerminal)
    /\ [][C8_OneResponse]_vars
    /\ []<>(\A r \in Requests : Generate(r) => Responded(r))

C8_Witness ==
    \E r \in Requests, q \in Requests :
        /\ req[r].hist = Append(StageOrder, "responded_200")
        /\ req[q].hist = Append(StageOrder, "responded_error")
        /\ req[q].outcome.kind = "text"

--------------------------------------------------------------------------
(* Claims about create_prompt, checked under SpecPrompt.                  *)

Built(r) == InHist(r, "prompt_built")

\* The first place of token tok in text t.
IndexOf(t, tok) ==
    CHOOSE i \in 1..Len(t) : t[i] = tok /\ \A j \in 1..(i - 1) : t[j] # tok

HasToken(t, tok) == \E i \in 1..Len(t) : t[i] = tok

CountToken(t, tok) == Cardinality({i \in 1..Len(t) : t[i] = tok})

\* The lines under "**Application Details:**", to the blank line that ends
\* them.
DetailsBlock(t) ==
    SubSeq(t, IndexOf(t, DetailsHeading) + 1,
           IndexOf(t, InstructionsHeading) - 1)

\* C4: the prompt has the line naming build_command if and only if
\* build_command was supplied, the empty string counting as supplied, and
\* the same for base_image.
C4_OptionalLineIffSupplied ==
    \A r \in Requests :
        Built(r) =>
            /\ HasToken(req[r].prompt, BuildLabel)
                   <=> req[r].desc.build_command.some
            /\ req[r].desc.build_command.some =>
                   Contains(req[r].prompt,
                            <<BuildLabel>> \o req[r].desc.build_command.val
                                \o <<LineClose>>)
            /\ HasToken(req[r].prompt, BaseImageLabel)
                   <=> req[r].desc.base_image.some
            /\ req[r].desc.base_image.some =>
                   Contains(req[r].prompt,
                            <<BaseImageLabel>> \o req[r].desc.base_image.val
                                \o <<BaseImageClose>>)

\* The five required values of a descriptor, the port as Python prints it.
RequiredValues(d) ==
    {d.language, d.package_manager, d.dependency_file, IntToStr(d.port),
     d.start_command}

\* C5 as stated: each of the five required values is in the prompt and
\* occurs exactly once in the details block.
C5_FiveValuesOnceInDetails ==
    \A r \in Requests :
        Built(r) =>
            \A v \in RequiredValues(req[r].desc) :
                /\ Contains(req[r].prompt, v)
                /\ CountOcc(DetailsBlock(req[r].prompt), v) = 1

\* C5, amended: the prompt opens with the sentence that carries language
\* and package_manager, each between its ** marks; the heading of the
\* details block follows; and the first three lines of the block are the
\* lines of dependency_file, port and start_command, in that order, each
\* its label, the value, and the closing mark.  The port is there as the
\* decimal digits of its number.  Each label occurs once.
C5_ValuesInPlace ==
    \A r \in Requests :
        Built(r) =>
            LET d == req[r].desc
                t == req[r].prompt
                upToPort == <<HeaderOpen>> \o d.language \o <<HeaderUsing>>
                                \o d.package_manager
                                \o <<HeaderClose, DetailsHeading,
                                     DependencyLabel>>
                                \o d.dependency_file
                                \o <<LineClose, PortLabel>>
                from == Len(upToPort) + 1
                to == CHOOSE j \in from..Len(t) :
                          t[j] = LineClose
                              /\ \A k \in from..(j - 1) : t[k] # LineClose
                digits == SubSeq(t, from, to - 1)
            IN  /\ IsPrefix(upToPort \o digits \o <<LineClose, StartLabel>>
                                \o d.start_command \o <<LineClose>>, t)
                /\ IsDigits(digits)
                /\ DigitsToNat(digits) = d.port
                /\ \A v \in RequiredValues(d) : Contains(t, v)
                /\ \A v \in {d.dependency_file, IntToStr(d.port),
                             d.start_command} :
                       CountOcc(DetailsBlock(t), v) >= 1
                /\ \A tok \in {HeaderOpen, HeaderUsing, DetailsHeading,
                               DependencyLabel, PortLabel, StartLabel} :
                       CountToken(t, tok) = 1

\* Some value occurs twice in the block, and language is not in it.
C5_Witness ==
    \E r \in Requests :
        /\ Built(r)
        /\ CountOcc(DetailsBlock(req[r].prompt),
                    req[r].desc.dependency_file) = 2
        /\ CountOcc(DetailsBlock(req[r].prompt), req[r].desc.language) = 0
        /\ req[r].desc.port = 65535

SixDirectives ==
    <<MultiStage, NonRoot, DockerIgnore, LayerCaching, Permissions, RawOutput>>

\* C6: the prompt ends with the six directives, in the order multi-stage
\* build, non-root user, .dockerignore example, dependency install before
\* source copy, permissions, raw output only, under their heading; every
\* line of the details and every optional line comes before the block; and
\* no directive occurs anywhere else.
C6_DirectivesLast ==
    \A r \in Requests :
        Built(r) =>
            LET t == req[r].prompt
                n == Len(t)
            IN  /\ n >= 7
                /\ SubSeq(t, n - 5, n) = SixDirectives
                /\ t[n - 6] = InstructionsHeading
                /\ \A tok \in {DetailsHeading, DependencyLabel, PortLabel,
                               StartLabel, BuildLabel, BaseImageLabel,
                               LineClose, BaseImageClose} :
                       \A i \in 1..n : t[i] = tok => i < n - 6
                /\ \A i \in 1..6 : CountToken(t, SixDirectives[i]) = 1
                /\ CountToken(t, InstructionsHeading) = 1

C6_Witness ==
    \E r \in Requests :
        /\ Built(r)
        /\ HasToken(req[r].prompt, BuildLabel)
        /\ HasToken(req[r].prompt, BaseImageLabel)
        /\ IsSuffix(SixDirectives, req[r].prompt)

==========================================================================
